---- MODULE Spec2Model ----
(***************************************************************************)
(* Model of suspect's numerical interval engine (suspect/interval.py), the *)
(* pow / cos / acos convexity rules and the monotonicity propagation       *)
(* visitor.                                                                *)
(*                                                                         *)
(* Numbers are fixed-point: the integer v stands for v / One.  The number  *)
(* backend (suspect.math: make_number, down, up, min_, max_, almosteq,     *)
(* almostlte, almostgte and the elementary functions) is not part of the   *)
(* sources at hand; it is modelled as extended reals with directed         *)
(* rounding to the fixed-point grid.  The comparison tolerance of          *)
(* almosteq is far below the resolution of the grid, so on the grid the    *)
(* almost-comparisons coincide with the exact ones.                        *)
(***************************************************************************)
EXTENDS Integers, Sequences, FiniteSets, TLC

VARIABLES op, self, other, ret, tanAtPole, partialBinds, expr, ctx,
          dag, monotonicity, stack, pc, calls, writes

\* a call of an Interval method or of a convexity rule
callVars == <<op, self, other, ret, tanAtPole, partialBinds, expr, ctx>>
\* a traversal of an expression graph by the monotonicity visitor
visitVars == <<dag, monotonicity, stack, pc, calls, writes>>

vars == <<callVars, visitVars>>

(***************************************************************************)
(* Bounds of the model.                                                    *)
(***************************************************************************)
\* interval endpoints of the arithmetic operations range over -MaxVal..MaxVal
MaxVal == 4
\* angles range over -MaxAngle..MaxAngle twelfths of pi
MaxAngle == 13
\* constant exponents and bases of pow range over -MaxExp..MaxExp halves
MaxExp == 4
\* the bounds of the argument of acos range over -MaxTenth..MaxTenth tenths
MaxTenth == 12
\* expression graphs have the nodes 1..MaxNodes, the last one being the root
MaxNodes == 3
\* the monotone functions are applied to the integers of -MaxArg..MaxArg
MaxArg == 2

(***************************************************************************)
(* Numbers: extended reals on a fixed-point grid, plus NaN and None.       *)
(***************************************************************************)
\* the fixed-point representation of 1.0
One == 5000

Fin(n) == [k |-> "fin", v |-> n]
pinf == [k |-> "pinf", v |-> 0]
ninf == [k |-> "ninf", v |-> 0]
nan == [k |-> "nan", v |-> 0]
None == [k |-> "none", v |-> 0]
zero == Fin(0)

is_nan(a) == a.k = "nan"
is_fin(a) == a.k = "fin"

\* position of a number on the extended real line, infinities at the ends
rank(a) == CASE a.k = "ninf" -> -1 [] a.k = "pinf" -> 1 [] OTHER -> 0

sgn(a) == CASE a.k = "ninf" -> -1
            [] a.k = "pinf" -> 1
            [] OTHER -> IF a.v > 0 THEN 1 ELSE IF a.v < 0 THEN -1 ELSE 0

\* a < b; every comparison with NaN is false
lt(a, b) ==
    /\ ~is_nan(a)
    /\ ~is_nan(b)
    /\ \/ rank(a) < rank(b)
       \/ is_fin(a) /\ is_fin(b) /\ a.v < b.v

gt(a, b) == lt(b, a)

eq(a, b) == ~is_nan(a) /\ ~is_nan(b) /\ a = b

le(a, b) == lt(a, b) \/ eq(a, b)

almosteq(a, b) == eq(a, b)
almostlte(a, b) == lt(a, b) \/ almosteq(a, b)
almostgte(a, b) == gt(a, b) \/ almosteq(a, b)

\* n / d for d > 0, rounded toward -infinity ("RD") or +infinity ("RU")
round_div(n, d, rm) == IF rm = "RD" THEN n \div d ELSE -((-n) \div d)

neg_num(a) ==
    CASE a.k = "ninf" -> pinf
      [] a.k = "pinf" -> ninf
      [] a.k = "fin" -> Fin(-a.v)
      [] OTHER -> a

\* a + b; exact on the grid, inf + -inf is NaN
add_num(a, b) ==
    IF is_nan(a) \/ is_nan(b) THEN nan
    ELSE IF is_fin(a) /\ is_fin(b) THEN Fin(a.v + b.v)
    ELSE IF rank(a) + rank(b) = 0 /\ ~is_fin(a) /\ ~is_fin(b) THEN nan
    ELSE IF rank(a) + rank(b) > 0 THEN pinf ELSE ninf

\* a * b rounded as rm; 0 * inf is NaN
mul_num(a, b, rm) ==
    IF is_nan(a) \/ is_nan(b) THEN nan
    ELSE IF is_fin(a) /\ is_fin(b) THEN Fin(round_div(a.v * b.v, One, rm))
    ELSE IF sgn(a) * sgn(b) = 0 THEN nan
    ELSE IF sgn(a) * sgn(b) > 0 THEN pinf ELSE ninf

\* 1.0 / a rounded as rm, for a # 0
inv_num(a, rm) ==
    IF is_nan(a) THEN nan
    ELSE IF ~is_fin(a) THEN zero
    ELSE IF a.v > 0 THEN Fin(round_div(One * One, a.v, rm))
    ELSE Fin(round_div(-(One * One), -a.v, rm))

\* the smaller / larger of two numbers that are numbers: a NaN corner is no bound
min2(a, b) == IF is_nan(a) THEN b ELSE IF is_nan(b) THEN a ELSE IF lt(b, a) THEN b ELSE a
max2(a, b) == IF is_nan(a) THEN b ELSE IF is_nan(b) THEN a ELSE IF gt(b, a) THEN b ELSE a

RECURSIVE min_(_)
min_(args) == IF Len(args) = 1 THEN args[1] ELSE min2(args[1], min_(Tail(args)))

RECURSIVE max_(_)
max_(args) == IF Len(args) = 1 THEN args[1] ELSE max2(args[1], max_(Tail(args)))

\* a % m for a finite a and m > 0: the result lies in [0, m)
mod_num(a, m) == Fin(a.v % m)

(***************************************************************************)
(* sin and tan on the angles k * pi / 12, rounded down or up to the grid.  *)
(***************************************************************************)
\* pi on the fixed-point grid; pi / 12 is a grid point
pi == 15708

two_pi == 2 * pi
half_pi == pi \div 2
step == pi \div 12

\* One * sin(j * pi / 12) for j = 0 .. 6, rounded down
sin_floor == <<0, 1294, 2500, 3535, 4330, 4829, 5000>>
sin_exact == {0, 2, 6}

\* One * tan(j * pi / 12) for j = 0 .. 5, rounded down
tan_floor == <<0, 1339, 2886, 5000, 8660, 18660>>
tan_exact == {0, 3}

\* table[j] rounded as rm, with the sign s
signed(table, exact, j, s, rm) ==
    LET lo == table[j + 1]
        hi == IF j \in exact THEN lo ELSE lo + 1
    IN  IF s > 0 THEN (IF rm = "RD" THEN lo ELSE hi)
        ELSE (IF rm = "RD" THEN -hi ELSE -lo)

\* sin(x, rm) for a finite angle x on the grid of pi / 12
sin(x, rm) ==
    LET k == (x.v % two_pi) \div step
    IN  Fin(CASE k <= 6 -> signed(sin_floor, sin_exact, k, 1, rm)
              [] k >= 7 /\ k <= 12 -> signed(sin_floor, sin_exact, 12 - k, 1, rm)
              [] k >= 13 /\ k <= 18 -> signed(sin_floor, sin_exact, k - 12, -1, rm)
              [] OTHER -> signed(sin_floor, sin_exact, 24 - k, -1, rm))

\* tan(x, rm) for a finite angle x on the grid of pi / 12; at its poles the
\* library returns a value beyond every number of the grid, of either sign
tan(x, rm) ==
    LET k == (x.v % pi) \div step
    IN  CASE k <= 5 -> Fin(signed(tan_floor, tan_exact, k, 1, rm))
          [] k = 6 -> tanAtPole
          [] OTHER -> Fin(signed(tan_floor, tan_exact, 12 - k, -1, rm))

(***************************************************************************)
(* The monotone functions on the integers and on the halves of [-1, 1],    *)
(* rounded down or up to the grid.                                         *)
(***************************************************************************)
\* One * sqrt(j) for j = 0 .. 6, rounded down
sqrt_floor == <<0, 5000, 7071, 8660, 10000, 11180, 12247>>
sqrt_exact == {0, 1, 4}

\* One * exp(j) and One * exp(-j - 1) for j = 0 .. 6, rounded down
exp_floor == <<5000, 13591, 36945, 100427, 272990, 742065, 2017143>>
exp_neg_floor == <<1839, 676, 248, 91, 33, 12, 4>>

\* One * log(j + 1) for j = 0 .. 6, rounded down
log_floor == <<0, 3465, 5493, 6931, 8047, 8958, 9729>>

\* One * atan(j) for j = 0 .. 6, rounded down
atan_floor == <<0, 3926, 5535, 6245, 6629, 6867, 7028>>

\* One * asin(j / 2) for j = 0 .. 2, rounded down
asin_floor == <<0, 2617, 7853>>

\* One * acos(j / 2 - 1) for j = 0 .. 4, rounded down
acos_floor == <<15707, 10471, 7853, 5235, 0>>

sqrt(x, rm) ==
    IF x = pinf THEN pinf ELSE Fin(signed(sqrt_floor, sqrt_exact, x.v \div One, 1, rm))

exp(x, rm) ==
    IF x = pinf THEN pinf
    ELSE IF x = ninf THEN zero
    ELSE IF x.v >= 0 THEN Fin(signed(exp_floor, {0}, x.v \div One, 1, rm))
    ELSE Fin(signed(exp_neg_floor, {}, (-x.v) \div One - 1, 1, rm))

log(x, rm) ==
    IF x = pinf THEN pinf ELSE Fin(signed(log_floor, {0}, x.v \div One - 1, 1, rm))

atan(x, rm) ==
    IF x = pinf THEN Fin(IF rm = "RD" THEN half_pi - 1 ELSE half_pi)
    ELSE IF x = ninf THEN Fin(IF rm = "RD" THEN -half_pi ELSE 1 - half_pi)
    ELSE IF x.v >= 0 THEN Fin(signed(atan_floor, {0}, x.v \div One, 1, rm))
    ELSE Fin(signed(atan_floor, {0}, (-x.v) \div One, -1, rm))

asin(x, rm) ==
    IF x.v >= 0 THEN Fin(signed(asin_floor, {0}, x.v \div (One \div 2), 1, rm))
    ELSE Fin(signed(asin_floor, {0}, (-x.v) \div (One \div 2), -1, rm))

acos(x, rm) == Fin(signed(acos_floor, {4}, x.v \div (One \div 2) + 2, 1, rm))

(***************************************************************************)
(* Interval.  A call either raises (err) or returns the interval [lo, hi]. *)
(***************************************************************************)
Raised == [err |-> TRUE, lo |-> nan, hi |-> nan]

\* the constructor without its ordering check
Interval_unchecked(lower, upper) ==
    [err |-> FALSE,
     lo |-> IF lower = None THEN ninf ELSE lower,
     hi |-> IF upper = None THEN pinf ELSE upper]

\* Interval.__init__
Interval(lower, upper) ==
    LET l == IF lower = None THEN ninf ELSE lower
        u == IF upper = None THEN pinf ELSE upper
    IN  IF gt(l, u) THEN Raised ELSE [err |-> FALSE, lo |-> l, hi |-> u]

\* Interval.zero
zero_interval == Interval(zero, zero)

\* Interval.size
size(it) ==
    IF it.lo = ninf \/ it.hi = pinf THEN pinf ELSE add_num(it.hi, neg_num(it.lo))

is_zero(it) == almosteq(it.lo, zero) /\ almosteq(it.hi, zero)
is_nonpositive(it) == almostlte(it.hi, zero)
\* is_nonnegative that tests the upper bound
is_nonnegative_of_upper(it) == almostgte(it.hi, zero)
is_nonnegative(it) == almostgte(it.lo, zero)

\* Interval.__contains__ for a number and for an interval
contains_num(it, x) == almostlte(it.lo, x) /\ almostlte(x, it.hi)
contains(it, o) == almostlte(it.lo, o.lo) /\ almostlte(o.hi, it.hi)

\* the reciprocal with both endpoints rounded the wrong way
inverse_inward(it) ==
    IF it.hi = zero \/ it.lo = zero THEN Raised
    ELSE Interval(inv_num(it.hi, "RU"), inv_num(it.lo, "RD"))

\* Interval.inverse: 1.0 / 0 raises
inverse(it) ==
    IF it.hi = zero \/ it.lo = zero THEN Raised
    ELSE Interval(inv_num(it.hi, "RD"), inv_num(it.lo, "RU"))

\* Interval.intersect; an empty intersection is EmptyInterval(), that is [0, 0]
intersect(it, o) ==
    LET new_lower == IF gt(o.lo, it.lo) THEN o.lo ELSE it.lo
        new_upper == IF lt(o.hi, it.hi) THEN o.hi ELSE it.hi
    IN  IF lt(new_upper, new_lower) THEN Interval(zero, zero)
        ELSE Interval(new_lower, new_upper)

\* Interval.__neg__
neg(it) == Interval(neg_num(it.hi), neg_num(it.lo))

\* Interval.__add__
add(it, o) == Interval(add_num(it.lo, o.lo), add_num(it.hi, o.hi))

\* Interval.__sub__
sub(it, o) == LET n == neg(o) IN IF n.err THEN Raised ELSE add(it, n)

\* Interval.__mul__
mul(it, o) ==
    IF is_zero(it) \/ is_zero(o) THEN zero_interval
    ELSE LET sl == it.lo
             su == it.hi
             ol == o.lo
             ou == o.hi
         IN  Interval(
                 min_(<<mul_num(sl, ol, "RD"), mul_num(sl, ou, "RD"),
                        mul_num(su, ol, "RD"), mul_num(su, ou, "RD")>>),
                 max_(<<mul_num(sl, ol, "RU"), mul_num(sl, ou, "RU"),
                        mul_num(su, ol, "RU"), mul_num(su, ou, "RU")>>))

\* Interval.__div__
div(it, o) ==
    IF contains_num(o, zero) THEN Interval(None, None)
    ELSE LET i == inverse(o) IN IF i.err THEN Raised ELSE mul(it, i)

\* Interval.__rdiv__: other / self
rdiv(it, o) ==
    IF contains_num(it, zero) THEN Interval(None, None)
    ELSE LET i == inverse(it) IN IF i.err THEN Raised ELSE mul(i, o)

\* Interval._sin below the periodicity cut-off
sin_reduced(it) ==
    LET lower == mod_num(it.lo, two_pi)
        upper == add_num(lower, add_num(it.hi, neg_num(it.lo)))
        new_lower == min_(<<sin(lower, "RD"), sin(upper, "RD")>>)
        new_upper == max_(<<sin(lower, "RU"), sin(upper, "RU")>>)
        new == Interval(new_lower, new_upper)
    IN  IF new.err THEN Raised
        ELSE Interval(
                 IF contains_num(new, Fin(3 * half_pi)) THEN Fin(-One) ELSE new_lower,
                 IF contains_num(new, Fin(half_pi)) THEN Fin(One) ELSE new_upper)

\* _sin with a strict comparison in the cut-off
sin_strict_cutoff(it) ==
    IF gt(size(it), Fin(two_pi)) THEN Interval(None, None) ELSE sin_reduced(it)

\* Interval._sin
_sin(it) ==
    IF almostgte(size(it), Fin(two_pi)) THEN Interval(None, None) ELSE sin_reduced(it)

\* Interval._cos: translate by pi / 2 and call sin
_cos(it) ==
    IF almostgte(size(it), Fin(two_pi)) THEN Interval(None, None)
    ELSE LET pi_2 == Fin(half_pi)
             shifted == add(it, Interval(pi_2, pi_2))
         IN  IF shifted.err THEN Raised ELSE _sin(shifted)

\* Interval._tan
_tan(it) ==
    IF almostgte(size(it), Fin(pi)) THEN Interval(None, None)
    ELSE LET lower == mod_num(it.lo, pi)
             upper == add_num(lower, add_num(it.hi, neg_num(it.lo)))
             new_lower == IF almosteq(lower, Fin(half_pi)) THEN None
                          ELSE min_(<<tan(lower, "RD"), tan(upper, "RD")>>)
             new_upper == IF almosteq(upper, Fin(half_pi)) THEN None
                          ELSE max_(<<tan(lower, "RU"), tan(upper, "RU")>>)
             new == Interval(new_lower, new_upper)
         IN  IF new_lower # None /\ new_upper # None /\ new.err THEN Raised
             ELSE IF /\ new_lower # None
                     /\ new_upper # None
                     /\ contains_num(new, Fin(half_pi)) \/ contains_num(new, Fin(pi))
                  THEN Interval(None, None)
             ELSE new

\* inner = func(it): the function of suspect.math that the decorated method
\* named func returns, applied to x with the rounding rm
inner(func, x, rm) ==
    CASE func = "_sqrt" -> sqrt(x, rm)
      [] func = "_exp" -> exp(x, rm)
      [] func = "_log" -> log(x, rm)
      [] func = "_asin" -> asin(x, rm)
      [] func = "_acos" -> acos(x, rm)
      [] func = "_atan" -> atan(x, rm)

\* monotonic_increasing: the method it returns, applied to it
monotonic_increasing(func, it) ==
    Interval(inner(func, it.lo, "RD"), inner(func, it.hi, "RU"))

\* monotonic_decreasing applies wraps to _wrapper without the function to wrap,
\* so the method is a partial of update_wrapper: where a partial is not bound
\* as a method the call lacks an argument and raises, where it is bound the
\* interval is taken as the wrapper to update and is returned
monotonic_decreasing(func, it) == IF partialBinds THEN it ELSE Raised

_sqrt(it) == monotonic_increasing("_sqrt", it)
_sqr(it) == Interval(mul_num(it.lo, it.lo, "RD"), mul_num(it.hi, it.hi, "RU"))
_exp(it) == monotonic_increasing("_exp", it)
_log(it) == monotonic_increasing("_log", it)
_asin(it) == monotonic_increasing("_asin", it)
_acos(it) == monotonic_decreasing("_acos", it)
_atan(it) == monotonic_increasing("_atan", it)

\* _FunctionOnInterval.__init__, with the methods given by name
_FunctionOnInterval(func, inv_func) == [_func |-> func, _inv_func |-> inv_func]

\* _FunctionOnInterval.inverse
function_inverse(f) == _FunctionOnInterval(f._inv_func, f._func)

\* the properties sqrt, exp, log, sin, cos, tan, asin, acos, atan of Interval
property(name) ==
    CASE name = "sqrt" -> _FunctionOnInterval("_sqrt", "_sqr")
      [] name = "exp" -> _FunctionOnInterval("_exp", "_log")
      [] name = "log" -> _FunctionOnInterval("_log", "_exp")
      [] name = "sin" -> _FunctionOnInterval("_sin", "_asin")
      [] name = "cos" -> _FunctionOnInterval("_cos", "_acos")
      [] name = "tan" -> _FunctionOnInterval("_tan", "_atan")
      [] name = "asin" -> _FunctionOnInterval("_asin", "_sin")
      [] name = "acos" -> _FunctionOnInterval("_acos", "_cos")
      [] name = "atan" -> _FunctionOnInterval("_atan", "_tan")

\* the bound method of the interval it that has the name m, called
method(m, it) ==
    CASE m = "_sqrt" -> _sqrt(it)
      [] m = "_sqr" -> _sqr(it)
      [] m = "_exp" -> _exp(it)
      [] m = "_log" -> _log(it)
      [] m = "_sin" -> _sin(it)
      [] m = "_cos" -> _cos(it)
      [] m = "_tan" -> _tan(it)
      [] m = "_asin" -> _asin(it)
      [] m = "_acos" -> _acos(it)
      [] m = "_atan" -> _atan(it)

\* _FunctionOnInterval.__call__
function_call(f, it) == method(f._func, it)

(***************************************************************************)
(* The arithmetic calls.                                                   *)
(***************************************************************************)
Endpoints == {Fin(i * One) : i \in -MaxVal..MaxVal} \cup {ninf, pinf}

\* the arguments a caller passes to the constructor
CtorArgs == Endpoints \cup {None}

\* the intervals that bound a real quantity
Intervals ==
    {[err |-> FALSE, lo |-> l, hi |-> u] : l \in Endpoints \ {pinf}, u \in Endpoints \ {ninf}}
        \ {it \in [err : {FALSE}, lo : Endpoints, hi : Endpoints] : gt(it.lo, it.hi)}

Idle == [err |-> FALSE, lo |-> zero, hi |-> zero]

\* no traversal is under way
NoVisit ==
    /\ dag = <<>>
    /\ monotonicity = <<>>
    /\ stack = <<>>
    /\ pc = "idle"
    /\ calls = <<>>
    /\ writes = <<>>

\* no expression is being analysed
NoExpr == [kind |-> "none", base_value |-> zero, exponent_value |-> zero]
NoCtx ==
    [bound |-> Idle, convexity |-> "Unknown", mono_base |-> "Unknown",
     mono_exponent |-> "Unknown", convexity_exponent |-> "Unknown"]

\* the pairs a caller may pass to the constructor, in either order
ArgPairs == [err : {FALSE}, lo : CtorArgs, hi : CtorArgs]

\* a call is made on operands drawn at the start; tanAtPole is read by tan only
Init ==
    /\ op = "none"
    /\ self \in ArgPairs
    /\ other \in Intervals
    /\ ret = Idle
    /\ tanAtPole = pinf
    /\ partialBinds = FALSE
    /\ expr = NoExpr
    /\ ctx = NoCtx
    /\ NoVisit

\* the call name on self (and other) returns or raises r
Call(name, r) ==
    /\ op = "none"
    /\ op' = name
    /\ ret' = r
    /\ UNCHANGED <<self, other, tanAtPole, partialBinds, expr, ctx>>
    /\ UNCHANGED visitVars

Construct == Call("init", Interval(self.lo, self.hi))
Negate == self \in Intervals /\ Call("neg", neg(self))
Invert == self \in Intervals /\ Call("inverse", inverse(self))
Add == self \in Intervals /\ Call("add", add(self, other))
Subtract == self \in Intervals /\ Call("sub", sub(self, other))
Multiply == self \in Intervals /\ Call("mul", mul(self, other))
Divide == self \in Intervals /\ Call("div", div(self, other))
RDivide == self \in Intervals /\ Call("rdiv", rdiv(self, other))
Intersect == self \in Intervals /\ Call("intersect", intersect(self, other))

Next ==
    \/ Construct
    \/ Negate
    \/ Invert
    \/ Add
    \/ Subtract
    \/ Multiply
    \/ Divide
    \/ RDivide
    \/ Intersect

Spec == Init /\ [][Next]_vars

(***************************************************************************)
(* The periodic functions, called on intervals of angles.                  *)
(***************************************************************************)
\* angles range over the multiples of pi / 12 from -MaxAngle to MaxAngle
AngleEndpoints == {Fin(k * step) : k \in -MaxAngle..MaxAngle} \cup {ninf, pinf}

AngleIntervals ==
    {it \in [err : {FALSE}, lo : AngleEndpoints \ {pinf}, hi : AngleEndpoints \ {ninf}] :
        ~gt(it.lo, it.hi)}

InitTrig ==
    /\ op = "none"
    /\ self \in AngleIntervals
    /\ other = Idle
    /\ ret = Idle
    /\ tanAtPole \in {ninf, pinf}
    /\ partialBinds = FALSE
    /\ expr = NoExpr
    /\ ctx = NoCtx
    /\ NoVisit

Sin == Call("sin", _sin(self))
Cos == Call("cos", _cos(self))
Tan == Call("tan", _tan(self))

NextTrig ==
    \/ Sin
    \/ Cos
    \/ Tan

SpecTrig == InitTrig /\ [][NextTrig]_vars

(***************************************************************************)
(* Convexity rules.  A rule reads the entries of its children in ctx.      *)
(***************************************************************************)
Convexity == {"Linear", "Convex", "Concave", "Unknown"}
Monotonicity == {"Constant", "Nondecreasing", "Nonincreasing", "Unknown"}

is_linear(cvx) == cvx = "Linear"
is_convex(cvx) == cvx \in {"Linear", "Convex"}
is_concave(cvx) == cvx \in {"Linear", "Concave"}
is_constant(mono) == mono = "Constant"

\* int(x): truncation toward zero
int(x) == IF x.v >= 0 THEN Fin((x.v \div One) * One) ELSE Fin(-(((-x.v) \div One) * One))

\* _numeric_exponent_pow_convexity, with cvx = ctx.convexity[base] and
\* bound_base = ctx.bound[base]
_numeric_exponent_pow_convexity(cvx, bound_base, exponent) ==
    LET is_integer == almosteq(exponent, int(exponent))
        is_even == almosteq(mod_num(exponent, 2 * One), zero)
    IN  IF almosteq(exponent, zero) THEN "Linear"
        ELSE IF almosteq(exponent, Fin(One)) THEN cvx
        ELSE IF is_integer /\ is_even /\ gt(exponent, zero) THEN
            IF is_linear(cvx) THEN "Convex"
            ELSE IF is_convex(cvx) /\ is_nonnegative(bound_base) THEN "Convex"
            ELSE IF is_concave(cvx) /\ is_nonpositive(bound_base) THEN "Convex"
            ELSE "Unknown"
        ELSE IF is_integer /\ is_even /\ almostlte(exponent, zero) THEN
            IF is_convex(cvx) /\ is_nonpositive(bound_base) THEN "Convex"
            ELSE IF is_concave(cvx) /\ is_nonnegative(bound_base) THEN "Convex"
            ELSE IF is_convex(cvx) /\ is_nonnegative(bound_base) THEN "Concave"
            ELSE IF is_concave(cvx) /\ is_nonpositive(bound_base) THEN "Concave"
            ELSE "Unknown"
        ELSE IF is_integer /\ gt(exponent, zero) THEN
            IF almosteq(exponent, Fin(One)) THEN cvx
            ELSE IF is_convex(cvx) /\ is_nonnegative(bound_base) THEN "Convex"
            ELSE IF is_concave(cvx) /\ is_nonpositive(bound_base) THEN "Concave"
            ELSE "Unknown"
        ELSE IF is_integer /\ almostlte(exponent, zero) THEN
            IF is_concave(cvx) /\ is_nonnegative(bound_base) THEN "Convex"
            ELSE IF is_convex(cvx) /\ is_nonpositive(bound_base) THEN "Concave"
            ELSE "Unknown"
        ELSE IF is_nonnegative(bound_base) THEN
            IF is_convex(cvx) /\ gt(exponent, Fin(One)) THEN "Convex"
            ELSE IF is_concave(cvx) /\ lt(exponent, zero) THEN "Convex"
            ELSE IF is_concave(cvx) /\ lt(zero, exponent) /\ lt(exponent, Fin(One)) THEN "Concave"
            ELSE IF is_convex(cvx) /\ lt(exponent, zero) THEN "Concave"
            ELSE "Unknown"
        ELSE "Unknown"

\* pow_convexity that takes any exponent class for a base >= 1
pow_convexity_any_exponent(e, c) ==
    IF is_constant(c.mono_exponent) THEN
        _numeric_exponent_pow_convexity(c.convexity, c.bound, e.exponent_value)
    ELSE IF is_constant(c.mono_base) THEN
        LET base == e.base_value
            cvx == c.convexity_exponent
        IN  IF lt(zero, base) /\ lt(base, Fin(One)) THEN
                IF is_concave(cvx) THEN "Convex" ELSE "Unknown"
            ELSE IF almostgte(base, Fin(One)) THEN "Convex"
            ELSE "Unknown"
    ELSE "Unknown"

\* pow_convexity
pow_convexity(e, c) ==
    IF is_constant(c.mono_exponent) THEN
        _numeric_exponent_pow_convexity(c.convexity, c.bound, e.exponent_value)
    ELSE IF is_constant(c.mono_base) THEN
        LET base == e.base_value
            cvx == c.convexity_exponent
        IN  IF lt(zero, base) /\ lt(base, Fin(One)) THEN
                IF is_concave(cvx) THEN "Convex" ELSE "Unknown"
            ELSE IF almostgte(base, Fin(One)) THEN
                IF is_convex(cvx) THEN "Convex" ELSE "Unknown"
            ELSE "Unknown"
    ELSE "Unknown"

\* cos_convexity without the test of the width of the bound
cos_convexity_any_width(e, c) ==
    LET bound == c.bound
        cvx == c.convexity
        cos_bound == _cos(bound)
        sin_bound == _sin(bound)
    IN  IF sgn(cos_bound.lo) * sgn(cos_bound.hi) < 0 THEN "Unknown"
        ELSE IF is_nonnegative(cos_bound) THEN
            IF is_linear(cvx) THEN "Concave"
            ELSE IF is_convex(cvx) /\ is_nonpositive(sin_bound) THEN "Concave"
            ELSE IF is_concave(cvx) /\ is_nonnegative(sin_bound) THEN "Concave"
            ELSE "Unknown"
        ELSE IF is_nonpositive(cos_bound) THEN
            IF is_linear(cvx) THEN "Convex"
            ELSE IF is_concave(cvx) /\ is_nonpositive(sin_bound) THEN "Convex"
            ELSE IF is_convex(cvx) /\ is_nonnegative(sin_bound) THEN "Convex"
            ELSE "Unknown"
        ELSE "Unknown"

\* cos_convexity
cos_convexity(e, c) ==
    LET bound == c.bound
        cvx == c.convexity
        cos_bound == _cos(bound)
        sin_bound == _sin(bound)
    IN  IF gt(size(bound), Fin(pi)) THEN "Unknown"
        ELSE IF sgn(cos_bound.lo) * sgn(cos_bound.hi) < 0 THEN "Unknown"
        ELSE IF is_nonnegative(cos_bound) THEN
            IF is_linear(cvx) THEN "Concave"
            ELSE IF is_convex(cvx) /\ is_nonpositive(sin_bound) THEN "Concave"
            ELSE IF is_concave(cvx) /\ is_nonnegative(sin_bound) THEN "Concave"
            ELSE "Unknown"
        ELSE IF is_nonpositive(cos_bound) THEN
            IF is_linear(cvx) THEN "Convex"
            ELSE IF is_concave(cvx) /\ is_nonpositive(sin_bound) THEN "Convex"
            ELSE IF is_convex(cvx) /\ is_nonnegative(sin_bound) THEN "Convex"
            ELSE "Unknown"
        ELSE "Unknown"

\* acos_convexity that tries the concave domain first
acos_convexity_concave_first(e, c) ==
    LET bound == c.bound
        cvx == c.convexity
        convex_domain == Interval(Fin(-One), zero)
        concave_domain == Interval(zero, Fin(One))
    IN  IF contains(concave_domain, bound) /\ is_convex(cvx) THEN "Concave"
        ELSE IF contains(convex_domain, bound) /\ is_concave(cvx) THEN "Convex"
        ELSE "Unknown"

\* acos_convexity
acos_convexity(e, c) ==
    LET bound == c.bound
        cvx == c.convexity
        convex_domain == Interval(Fin(-One), zero)
        concave_domain == Interval(zero, Fin(One))
    IN  IF contains(convex_domain, bound) /\ is_concave(cvx) THEN "Convex"
        ELSE IF contains(concave_domain, bound) /\ is_convex(cvx) THEN "Concave"
        ELSE "Unknown"

(***************************************************************************)
(* The rule calls: the expression and the entries of its children are      *)
(* drawn at the start.                                                     *)
(***************************************************************************)
\* the values of a constant exponent or base
PowValues == {Fin(k * (One \div 2)) : k \in -2 * MaxExp..2 * MaxExp}

\* the bounds of the base of pow: every sign pattern, bounded or not
PowBounds ==
    {it \in [err : {FALSE}, lo : {ninf, Fin(-One), zero, Fin(One)},
             hi : {Fin(-One), zero, Fin(One), pinf}] : ~gt(it.lo, it.hi)}

\* the bounds of the argument of acos
AcosEndpoints == {Fin(k * (One \div 10)) : k \in -MaxTenth..MaxTenth} \cup {ninf, pinf}
AcosBounds ==
    {it \in [err : {FALSE}, lo : AcosEndpoints \ {pinf}, hi : AcosEndpoints \ {ninf}] :
        ~gt(it.lo, it.hi)}

\* a constant child carries its value; the value of any other child is not read
ValuesOf(mono) == IF is_constant(mono) THEN PowValues ELSE {zero}

InitPow ==
    /\ \E mb \in Monotonicity, me \in Monotonicity :
         /\ expr \in [kind : {"pow"}, base_value : ValuesOf(mb), exponent_value : ValuesOf(me)]
         /\ ctx \in [bound : PowBounds, convexity : Convexity, mono_base : {mb},
                     mono_exponent : {me}, convexity_exponent : Convexity]

InitCos ==
    /\ expr = [kind |-> "cos", base_value |-> zero, exponent_value |-> zero]
    /\ ctx \in [bound : AngleIntervals, convexity : Convexity, mono_base : {"Unknown"},
                mono_exponent : {"Unknown"}, convexity_exponent : {"Unknown"}]

InitAcos ==
    /\ expr = [kind |-> "acos", base_value |-> zero, exponent_value |-> zero]
    /\ ctx \in [bound : AcosBounds, convexity : Convexity, mono_base : {"Unknown"},
                mono_exponent : {"Unknown"}, convexity_exponent : {"Unknown"}]

InitRules ==
    /\ op = "none"
    /\ self = Idle
    /\ other = Idle
    /\ ret = "none"
    /\ tanAtPole = pinf
    /\ partialBinds = FALSE
    /\ InitPow \/ InitCos \/ InitAcos
    /\ NoVisit

Pow == expr.kind = "pow" /\ Call("pow", pow_convexity(expr, ctx))
CosRule == expr.kind = "cos" /\ Call("cos", cos_convexity(expr, ctx))
AcosRule == expr.kind = "acos" /\ Call("acos", acos_convexity(expr, ctx))

NextRules ==
    \/ Pow
    \/ CosRule
    \/ AcosRule

SpecRules == InitRules /\ [][NextRules]_vars

(***************************************************************************)
(* The calls of the monotone functions and of their inverses.              *)
(***************************************************************************)
Functions == {"sqrt", "exp", "log", "sin", "cos", "tan", "asin", "acos", "atan"}

\* it.f(), it.f.inverse() and it.f.inverse.inverse()
Forms == {"call", "inverse", "inverse.inverse"}

IntegerPoints == {Fin(k * One) : k \in -MaxArg..MaxArg}
UnitHalves == {Fin(k * (One \div 2)) : k \in -2..2}

MonoIntervals ==
    {it \in [err : {FALSE}, lo : IntegerPoints \cup UnitHalves \cup {ninf},
             hi : IntegerPoints \cup UnitHalves \cup {pinf}] : ~gt(it.lo, it.hi)}

\* the intervals on which the method named m is defined and tabulated
InDomain(m, it) ==
    CASE m = "_sqrt" -> /\ it.lo \in IntegerPoints /\ ~lt(it.lo, zero)
                        /\ it.hi \in IntegerPoints \cup {pinf}
      [] m = "_sqr" -> it.lo \in IntegerPoints /\ it.hi \in IntegerPoints
      [] m \in {"_exp", "_atan"} -> /\ it.lo \in IntegerPoints \cup {ninf}
                                    /\ it.hi \in IntegerPoints \cup {pinf}
      [] m = "_log" -> /\ it.lo \in IntegerPoints /\ gt(it.lo, zero)
                       /\ it.hi \in IntegerPoints \cup {pinf}
      [] m \in {"_asin", "_acos"} -> it.lo \in UnitHalves /\ it.hi \in UnitHalves
      [] m \in {"_sin", "_cos", "_tan"} -> it \in AngleIntervals

\* the function object that the call expr is made on
called(e) ==
    CASE e.form = "call" -> property(e.kind)
      [] e.form = "inverse" -> function_inverse(property(e.kind))
      [] e.form = "inverse.inverse" -> function_inverse(function_inverse(property(e.kind)))

InitMono ==
    /\ op = "none"
    /\ expr \in [kind : Functions, form : Forms]
    /\ self \in {it \in MonoIntervals \cup AngleIntervals : InDomain(called(expr)._func, it)}
    /\ other = Idle
    /\ ret = Idle
    /\ tanAtPole \in {ninf, pinf}
    /\ partialBinds \in BOOLEAN
    /\ ctx = NoCtx
    /\ NoVisit

Function ==
    /\ expr.form = "call"
    /\ Call("function", function_call(property(expr.kind), self))

Inverse ==
    /\ expr.form = "inverse"
    /\ Call("inverse", function_call(function_inverse(property(expr.kind)), self))

InverseInverse ==
    /\ expr.form = "inverse.inverse"
    /\ Call("inverse.inverse",
            function_call(function_inverse(function_inverse(property(expr.kind))), self))

NextMono ==
    \/ Function
    \/ Inverse
    \/ InverseInverse

SpecMono == InitMono /\ [][NextMono]_vars

(***************************************************************************)
(* Monotonicity propagation: the dispatch table and the visitor.           *)
(***************************************************************************)
\* the rule registered for each expression type
_expr_to_rule_map ==
    [NumericConstant |-> "ConstantRule",
     Var |-> "VariableRule",
     Constraint |-> "ConstraintRule",
     Objective |-> "ObjectiveRule",
     MonomialTermExpression |-> "ProductRule",
     ProductExpression |-> "ProductRule",
     DivisionExpression |-> "DivisionRule",
     ReciprocalExpression |-> "ReciprocalRule",
     LinearExpression |-> "LinearRule",
     SumExpression |-> "SumRule",
     PowExpression |-> "PowerRule",
     NegationExpression |-> "NegationRule",
     AbsExpression |-> "AbsRule",
     QuadraticExpression |-> "QuadraticRule",
     UnaryFunctionExpression |-> "CombineUnaryFunctionRules"]

\* Python numbers, which are leaves of an expression without being Pyomo objects
nonpyomo_leaf_types == {"float", "int"}

\* expression types of the modelling layer that have no rule registered
UnregisteredTypes == {"ScalarExpression", "ExternalFunctionExpression"}

\* the types a node with 0, 1, 2 or more children can have
LeafTypes == {"float", "NumericConstant", "Var", "_GeneralVarData", "Param", "MutableParam"}
UnaryTypes ==
    {"NegationExpression", "AbsExpression", "ReciprocalExpression",
     "UnaryFunctionExpression", "Constraint", "Objective", "ScalarExpression"}
BinaryTypes ==
    {"PowExpression", "DivisionExpression", "ProductExpression", "MonomialTermExpression",
     "SumExpression", "LinearExpression", "QuadraticExpression",
     "ExternalFunctionExpression"}
NaryTypes ==
    {"SumExpression", "LinearExpression", "QuadraticExpression",
     "ExternalFunctionExpression"}

TypesFor(children) ==
    CASE Cardinality(children) = 0 -> LeafTypes
      [] Cardinality(children) = 1 -> UnaryTypes
      [] Cardinality(children) = 2 -> BinaryTypes
      [] OTHER -> NaryTypes

\* expr.is_constant(), expr.is_variable_type(), expr.is_expression_type()
is_constant_type(type) == type \in {"NumericConstant", "Param"}
is_variable_type(type) == type \in {"Var", "_GeneralVarData"}
is_expression_type(type) == type \notin LeafTypes \cup nonpyomo_leaf_types

\* rule.apply(expr, mono, bounds): a rule reads the entries of the children of
\* expr, which raises for a child that has none, and returns a Monotonicity
apply(rule, n, mono) ==
    LET children == dag[n].children
    IN  IF ~(children \subseteq DOMAIN mono) THEN [raised |-> TRUE, value |-> "KeyError"]
        ELSE [raised |-> FALSE,
              value |-> CASE rule = "ConstantRule" -> "Constant"
                          [] rule = "VariableRule" -> "Nondecreasing"
                          [] \A c \in children : mono[c] = "Constant" -> "Constant"
                          [] rule \in {"SumRule", "LinearRule", "ConstraintRule", "ObjectiveRule"}
                               /\ \A c \in children : mono[c] \in {"Constant", "Nondecreasing"}
                               -> "Nondecreasing"
                          [] OTHER -> "Unknown"]

\* the dispatch with a fallback to Unknown for a type that has no rule
propagate_with_default(n, mono) ==
    LET type == dag[n].type
    IN  IF type \in nonpyomo_leaf_types \/ is_constant_type(type)
            THEN apply(_expr_to_rule_map["NumericConstant"], n, mono)
        ELSE IF is_variable_type(type) THEN apply(_expr_to_rule_map["Var"], n, mono)
        ELSE IF type \notin DOMAIN _expr_to_rule_map THEN [raised |-> FALSE, value |-> "Unknown"]
        ELSE apply(_expr_to_rule_map[type], n, mono)

\* propagate_expression_monotonicity
propagate_expression_monotonicity(n, mono) ==
    LET type == dag[n].type
    IN  IF type \in nonpyomo_leaf_types \/ is_constant_type(type)
            THEN apply(_expr_to_rule_map["NumericConstant"], n, mono)
        ELSE IF is_variable_type(type) THEN apply(_expr_to_rule_map["Var"], n, mono)
        ELSE IF ~is_expression_type(type) THEN [raised |-> TRUE, value |-> "AssertionError"]
        ELSE IF type \notin DOMAIN _expr_to_rule_map THEN [raised |-> TRUE, value |-> "KeyError"]
        ELSE apply(_expr_to_rule_map[type], n, mono)

\* MonotonicityPropagationVisitor.visit_expression
visit_expression(n, mono) == propagate_expression_monotonicity(n, mono)

\* handle_result that forgets the result
handle_result_forgetful(n, result, mono) == mono

\* MonotonicityPropagationVisitor.handle_result: monotonicity[expr] = result
handle_result(n, result, mono) ==
    [m \in DOMAIN mono \cup {n} |-> IF m = n THEN result ELSE mono[m]]

Nodes == 1..MaxNodes
Root == MaxNodes

\* the nodes that can come n-th: the children of a node come before it
NodeChoices(n) ==
    UNION {{[type |-> t, children |-> cs] : t \in TypesFor(cs)} : cs \in SUBSET (1..(n - 1))}

RECURSIVE DagsUpTo(_)
\* the acyclic graphs on 1..n
DagsUpTo(n) ==
    IF n = 0 THEN {<<>>}
    ELSE {Append(d, x) : d \in DagsUpTo(n - 1), x \in NodeChoices(n)}

\* the acyclic graphs on Nodes
Dags == DagsUpTo(MaxNodes)

InitVisit ==
    /\ op = "none"
    /\ self = Idle
    /\ other = Idle
    /\ ret = Idle
    /\ tanAtPole = pinf
    /\ partialBinds = FALSE
    /\ expr = NoExpr
    /\ ctx = NoCtx
    /\ dag \in Dags
    /\ monotonicity = <<>>
    /\ stack = <<Root>>
    /\ pc = "walk"
    /\ calls = [n \in Nodes |-> 0]
    /\ writes = [n \in Nodes |-> 0]

Top == stack[Len(stack)]

\* the children of the node on top of the stack that have no entry yet
Pending == {c \in dag[Top].children : c \notin DOMAIN monotonicity}

\* the walk goes down to the first child that has not been visited
Descend ==
    /\ pc = "walk"
    /\ stack # <<>>
    /\ Pending # {}
    /\ stack' = Append(stack, CHOOSE c \in Pending : \A o \in Pending : c <= o)
    /\ UNCHANGED <<dag, monotonicity, pc, calls, writes>>
    /\ UNCHANGED callVars

\* all children are visited: the visitor computes the entry of the node and
\* stores it
Visit ==
    /\ pc = "walk"
    /\ stack # <<>>
    /\ Pending = {}
    /\ LET n == Top
           result == visit_expression(n, monotonicity)
       IN  /\ calls' = [calls EXCEPT ![n] = @ + 1]
           /\ IF result.raised
              THEN /\ pc' = "error"
                   /\ UNCHANGED <<monotonicity, stack, writes>>
              ELSE /\ monotonicity' = handle_result(n, result.value, monotonicity)
                   /\ writes' = [writes EXCEPT ![n] = @ + 1]
                   /\ stack' = SubSeq(stack, 1, Len(stack) - 1)
                   /\ pc' = IF Len(stack) = 1 THEN "done" ELSE "walk"
    /\ UNCHANGED dag
    /\ UNCHANGED callVars

NextVisit ==
    \/ Descend
    \/ Visit

SpecVisit == InitVisit /\ [][NextVisit]_vars

(***************************************************************************)
(* Properties of the arithmetic calls.                                     *)
(***************************************************************************)
ArithOps == {"neg", "add", "sub", "mul", "div", "rdiv", "intersect"}

\* the concrete values of the grid that lie in an interval
Points(it) == {x \in {i * One : i \in -MaxVal..MaxVal} : contains_num(it, Fin(x))}

\* the real number p / q (q > 0) lies in the interval, whose endpoints are fixed-point
HoldsFraction(it, p, q) ==
    /\ ~it.err
    /\ it.lo = ninf \/ (is_fin(it.lo) /\ it.lo.v * q <= p * One)
    /\ it.hi = pinf \/ (is_fin(it.hi) /\ it.hi.v * q >= p * One)

\* the real number x / y (y # 0) lies in the interval
HoldsQuotient(it, x, y) ==
    IF y > 0 THEN HoldsFraction(it, x, y) ELSE HoldsFraction(it, -x, -y)

IntervalOf(l, u) == [err |-> FALSE, lo |-> Fin(l * One), hi |-> Fin(u * One)]

\* C1: the constructor fails exactly when lower > upper and otherwise stores
\* lower <= upper, a missing lower being -infinity and a missing upper
\* +infinity; every interval an arithmetic operation returns has lower <= upper.
C1_OrderedIntervals ==
    /\ op = "init" =>
          /\ ret.err <=> (self.lo # None /\ self.hi # None /\ gt(self.lo, self.hi))
          /\ ~ret.err =>
                /\ le(ret.lo, ret.hi)
                /\ ret.lo = (IF self.lo = None THEN ninf ELSE self.lo)
                /\ ret.hi = (IF self.hi = None THEN pinf ELSE self.hi)
    /\ (op \in ArithOps /\ ~ret.err) => le(ret.lo, ret.hi)

\* an interval was built from a missing lower bound and a finite upper bound
C1_Witness ==
    /\ op = "init"
    /\ self.lo = None
    /\ is_fin(self.hi)
    /\ ~ret.err
    /\ ret.lo = ninf

\* C2: for all x in A and y in B, x + y, x - y and x * y lie in A + B, A - B
\* and A * B, and x / y lies in A / B when B does not contain zero;
\* [-2, 3] * [-1, 4] is [-8, 12] and a product with [0, 0] is [0, 0].
C2_ArithmeticSound ==
    /\ op = "add" =>
          \A x \in Points(self), y \in Points(other) : HoldsFraction(ret, x + y, One)
    /\ op = "sub" =>
          \A x \in Points(self), y \in Points(other) : HoldsFraction(ret, x - y, One)
    /\ op = "mul" =>
          /\ \A x \in Points(self), y \in Points(other) : HoldsFraction(ret, (x \div One) * (y \div One), 1)
          /\ (self = IntervalOf(-2, 3) /\ other = IntervalOf(-1, 4)) => ret = IntervalOf(-8, 12)
          /\ (self = IntervalOf(0, 0) \/ other = IntervalOf(0, 0)) => ret = IntervalOf(0, 0)
    /\ (op = "div" /\ ~contains_num(other, zero)) =>
          \A x \in Points(self), y \in Points(other) : HoldsQuotient(ret, x, y)
    /\ (op = "rdiv" /\ ~contains_num(self, zero)) =>
          \A x \in Points(self), y \in Points(other) : HoldsQuotient(ret, y, x)

\* a quotient by an entirely negative interval whose reciprocal needs rounding
C2_Witness ==
    /\ op = "div"
    /\ self = IntervalOf(1, 2)
    /\ other = IntervalOf(-3, -2)
    /\ ~ret.err
    /\ lt(ret.lo, ret.hi)


(***************************************************************************)
(* Properties of the periodic functions.                                   *)
(***************************************************************************)
Unbounded == [err |-> FALSE, lo |-> ninf, hi |-> pinf]

Bounded(it) == is_fin(it.lo) /\ is_fin(it.hi)

\* the interval has an infinite endpoint or hi - lo >= w
AtLeastWide(it, w) == ~Bounded(it) \/ it.hi.v - it.lo.v >= w

\* the angles of the grid that lie in an interval
Angles(it) == {x \in {k * step : k \in -MaxAngle..MaxAngle} : contains_num(it, Fin(x))}

\* some angle congruent to c modulo m lies in the interval
Crosses(it, c, m) == \E x \in Angles(it) : (x - c) % m = 0

\* the interval returned contains the images of x rounded down and up
HoldsImage(it, down_x, up_x) ==
    /\ ~it.err
    /\ le(it.lo, down_x)
    /\ le(up_x, it.hi)

\* C3: sin and cos of an interval at least 2 pi wide, and tan of an interval
\* at least pi wide, return the unbounded interval without raising; an
\* interval with an infinite endpoint is that wide.
C3_PeriodicityCutOff ==
    /\ (op \in {"sin", "cos"} /\ AtLeastWide(self, two_pi)) => ret = Unbounded
    /\ (op = "tan" /\ AtLeastWide(self, pi)) => ret = Unbounded

\* cos was called on a bounded interval exactly 2 pi wide
C3_Witness ==
    /\ op = "cos"
    /\ Bounded(self)
    /\ self.hi.v - self.lo.v = two_pi
    /\ ret = Unbounded

\* C9: below the cut-off, the upper bound of sin is 1 when the interval
\* crosses pi / 2 and its lower bound is -1 when it crosses 3 pi / 2, likewise
\* for cos (whose extrema lie at 0 and pi), and the result contains sin(x),
\* respectively cos(x), for every x of the interval.
C9_SinCosClamped ==
    /\ (op = "sin" /\ ~AtLeastWide(self, two_pi)) =>
          /\ Crosses(self, half_pi, two_pi) => ret.hi = Fin(One)
          /\ Crosses(self, 3 * half_pi, two_pi) => ret.lo = Fin(-One)
          /\ \A x \in Angles(self) : HoldsImage(ret, sin(Fin(x), "RD"), sin(Fin(x), "RU"))
    /\ (op = "cos" /\ ~AtLeastWide(self, two_pi)) =>
          /\ Crosses(self, 0, two_pi) => ret.hi = Fin(One)
          /\ Crosses(self, pi, two_pi) => ret.lo = Fin(-One)
          /\ \A x \in Angles(self) :
                HoldsImage(ret, sin(Fin(x + half_pi), "RD"), sin(Fin(x + half_pi), "RU"))

\* the reduction of an interval narrower than pi modulo pi: [l, l + width]
ReducedLower(it) == it.lo.v % pi
ReducedUpper(it) == (it.lo.v % pi) + (it.hi.v - it.lo.v)

\* C10: below the cut-off, tan of an interval whose reduction modulo pi has
\* pi / 2 strictly inside is the unbounded interval; when only the lower
\* (upper) reduced endpoint is pi / 2 the lower (upper) bound is infinite;
\* the result contains tan(x) for every x of the interval where tan is defined.
C10_TanSingularity ==
    (op = "tan" /\ ~AtLeastWide(self, pi)) =>
        /\ (ReducedLower(self) < half_pi /\ half_pi < ReducedUpper(self)) => ret = Unbounded
        /\ (ReducedLower(self) = half_pi /\ ReducedUpper(self) # half_pi) =>
              (~ret.err /\ ret.lo = ninf)
        /\ (ReducedUpper(self) = half_pi /\ ReducedLower(self) # half_pi) =>
              (~ret.err /\ ret.hi = pinf)
        /\ \A x \in Angles(self) :
              (x - half_pi) % pi # 0 => HoldsImage(ret, tan(Fin(x), "RD"), tan(Fin(x), "RU"))

(***************************************************************************)
(* Properties of the convexity rules.                                      *)
(***************************************************************************)
RECURSIVE FirstMatch(_)
\* the class of the first row <<condition, class>> whose condition holds
FirstMatch(rows) ==
    IF rows = <<>> THEN "Unknown"
    ELSE IF rows[1][1] THEN rows[1][2]
    ELSE FirstMatch(Tail(rows))

\* the bound lies in [0, +inf), in (-inf, 0], in (-inf, 0)
NonNeg(b) == b.lo = pinf \/ (is_fin(b.lo) /\ b.lo.v >= 0)
NonPos(b) == b.hi = ninf \/ (is_fin(b.hi) /\ b.hi.v <= 0)
Negative(b) == b.hi = ninf \/ (is_fin(b.hi) /\ b.hi.v < 0)

\* the bound lies within [l, u]
Within(b, l, u) == is_fin(b.lo) /\ is_fin(b.hi) /\ l <= b.lo.v /\ b.hi.v <= u

Cvx(c) == c = "Convex" \/ c = "Linear"
Ccv(c) == c = "Concave" \/ c = "Linear"

\* the case table of pow for the constant exponent e / One
PowTable(c, b, e) ==
    LET whole == e % One = 0
        even == e % (2 * One) = 0
    IN  IF e = 0 THEN "Linear"
        ELSE IF e = One THEN c
        ELSE IF whole /\ even /\ e > 0 THEN
            FirstMatch(<< <<c = "Linear", "Convex">>,
                          <<Cvx(c) /\ NonNeg(b), "Convex">>,
                          <<Ccv(c) /\ NonPos(b), "Convex">> >>)
        ELSE IF whole /\ even THEN
            FirstMatch(<< <<Cvx(c) /\ NonPos(b), "Convex">>,
                          <<Ccv(c) /\ NonNeg(b), "Convex">>,
                          <<Cvx(c) /\ NonNeg(b), "Concave">>,
                          <<Ccv(c) /\ NonPos(b), "Concave">> >>)
        ELSE IF whole /\ e > 0 THEN
            FirstMatch(<< <<Cvx(c) /\ NonNeg(b), "Convex">>,
                          <<Ccv(c) /\ NonPos(b), "Concave">> >>)
        ELSE IF whole THEN
            FirstMatch(<< <<Ccv(c) /\ NonNeg(b), "Convex">>,
                          <<Cvx(c) /\ NonPos(b), "Concave">> >>)
        ELSE
            FirstMatch(<< <<NonNeg(b) /\ Cvx(c) /\ e > One, "Convex">>,
                          <<NonNeg(b) /\ Ccv(c) /\ e < 0, "Convex">>,
                          <<NonNeg(b) /\ Ccv(c) /\ 0 < e /\ e < One, "Concave">>,
                          <<NonNeg(b) /\ Cvx(c) /\ e < 0, "Concave">> >>)

\* C4: pow_convexity returns the class of the case table: for a constant
\* exponent the first matching row of its kind of exponent; for a constant
\* base b and a non-constant exponent, Convex when 0 < b < 1 with a Concave
\* exponent or b >= 1 with a Convex exponent; Unknown in every other case.
C4_PowTable ==
    op = "pow" =>
        LET c == ctx.convexity
            b == ctx.bound
            e == expr.exponent_value.v
            base == expr.base_value.v
            ce == ctx.convexity_exponent
        IN  /\ ctx.mono_exponent = "Constant" =>
                  /\ ret = PowTable(c, b, e)
                  /\ e = 0 => ret = "Linear"
                  /\ e = One => ret = c
                  /\ (e = 2 * One /\ c = "Linear") => ret = "Convex"
                  /\ (e = 2 * One /\ c = "Concave" /\ NonPos(b)) => ret = "Convex"
                  /\ (e = 3 * One /\ c = "Convex" /\ Negative(b)) => ret = "Unknown"
            /\ (ctx.mono_exponent # "Constant" /\ ctx.mono_base = "Constant") =>
                  ret = FirstMatch(<< <<0 < base /\ base < One /\ Ccv(ce), "Convex">>,
                                      <<base >= One /\ Cvx(ce), "Convex">> >>)
            /\ (ctx.mono_exponent # "Constant" /\ ctx.mono_base # "Constant") =>
                  ret = "Unknown"

\* pow(x, 3) was classified for a Convex x with a negative bound
C4_Witness ==
    /\ op = "pow"
    /\ ctx.mono_exponent = "Constant"
    /\ expr.exponent_value = Fin(3 * One)
    /\ ctx.convexity = "Convex"
    /\ Negative(ctx.bound)
    /\ ret = "Unknown"

C6_AcosRule ==
    op = "acos" =>
        /\ ret = FirstMatch(
               << <<Within(ctx.bound, -One, 0) /\ Ccv(ctx.convexity), "Convex">>,
                  <<Within(ctx.bound, 0, One) /\ Cvx(ctx.convexity), "Concave">> >>)
        /\ ctx.convexity = "Unknown" => ret = "Unknown"

\* acos of an argument of class Unknown bounded by [0.2, 0.9] was classified
C6_Witness ==
    /\ op = "acos"
    /\ ctx.bound = [err |-> FALSE, lo |-> Fin(One \div 5), hi |-> Fin(9 * (One \div 10))]
    /\ ctx.convexity = "Unknown"
    /\ ret = "Unknown"

\* the rule has read the unbounded interval as the bound of its argument or base
ReadsUnbounded ==
    /\ ctx.bound = Unbounded
    /\ \/ op \in {"cos", "acos"}
       \/ op = "pow" /\ is_constant(ctx.mono_exponent)

\* C11 as stated: a rule that reads the unbounded interval as the bound of its
\* argument or base returns Unknown, whatever the class of the child.
C11_UnboundedAbsorbing ==
    ReadsUnbounded => ret = "Unknown"

\* C11 as amended: cos and acos of an argument with the unbounded bound are
\* Unknown for every class of the argument; pow of a base with the unbounded
\* bound and a constant exponent is Unknown except in the rows that do not
\* test the bound: exponent 0 is Linear, exponent 1 is the class of the base,
\* a positive even integer exponent of a Linear base is Convex.
C11_UnboundedAbsorbingButFreeRows ==
    ReadsUnbounded =>
        IF op \in {"cos", "acos"} THEN ret = "Unknown"
        ELSE LET e == expr.exponent_value.v
             IN  IF e = 0 THEN ret = "Linear"
                 ELSE IF e = One THEN ret = ctx.convexity
                 ELSE IF e > 0 /\ e % (2 * One) = 0 /\ ctx.convexity = "Linear"
                     THEN ret = "Convex"
                 ELSE ret = "Unknown"

\* the cube of a Convex base with the unbounded bound was classified
C11_Witness ==
    /\ op = "pow"
    /\ ReadsUnbounded
    /\ expr.exponent_value = Fin(3 * One)
    /\ ctx.convexity = "Convex"
    /\ ret = "Unknown"

(***************************************************************************)
(* Properties of the monotonicity visitor.                                 *)
(***************************************************************************)
\* the node kinds the analysis supports, by the expression type of each
ClosedSet ==
    {"NumericConstant", "Var", "SumExpression", "LinearExpression", "ProductExpression",
     "MonomialTermExpression", "DivisionExpression", "ReciprocalExpression",
     "PowExpression", "NegationExpression", "AbsExpression", "QuadraticExpression",
     "UnaryFunctionExpression", "Constraint", "Objective"}

\* an expression node whose type has no rule
Unregistered(n) ==
    /\ is_expression_type(dag[n].type)
    /\ dag[n].type \notin DOMAIN _expr_to_rule_map

\* C7: every kind of the closed set has a rule; for an expression node whose
\* type has none, propagate_expression_monotonicity raises instead of
\* returning a Monotonicity, no entry is ever written for the node, and the
\* traversal that reaches the node ends with the error at that node.
C7_UnregisteredIsFatal ==
    /\ ClosedSet \subseteq DOMAIN _expr_to_rule_map
    /\ \A n \in Nodes :
        Unregistered(n) =>
            /\ propagate_expression_monotonicity(n, monotonicity).raised
            /\ n \notin DOMAIN monotonicity
            /\ writes[n] = 0
            /\ calls[n] > 0 => pc = "error" /\ Top = n

\* a traversal has reached a node without a rule below the root, after the
\* entries of its children were written
C7_Witness ==
    /\ pc = "error"
    /\ Unregistered(Top)
    /\ Top # Root
    /\ calls[Top] = 1
    /\ dag[Top].children # {}
    /\ dag[Top].children \subseteq DOMAIN monotonicity

RECURSIVE Descendants(_)
\* the nodes of the expression rooted at n
Descendants(n) ==
    {n} \cup UNION {Descendants(c) : c \in dag[n].children}

\* the nodes that have two parents in the expression that is traversed
Shared ==
    {n \in Nodes : \E p, q \in Descendants(Root) :
        p # q /\ n \in dag[p].children /\ n \in dag[q].children}

\* C8: in a traversal, visit_expression is called at most once for a node and
\* its entry is written at most once, when the entries of its children are
\* there; the entry is the value of its rule; a traversal that completes has
\* written the entry of every node of the expression exactly once.
C8_WriteOnce ==
    /\ \A n \in Nodes :
        /\ calls[n] <= 1
        /\ writes[n] <= 1
        /\ n \in DOMAIN monotonicity <=> writes[n] = 1
        /\ writes[n] = 1 =>
            /\ calls[n] = 1
            /\ dag[n].children \subseteq DOMAIN monotonicity
            /\ ~visit_expression(n, monotonicity).raised
            /\ monotonicity[n] = visit_expression(n, monotonicity).value
    /\ pc = "done" => \A n \in Descendants(Root) : writes[n] = 1

\* a traversal has completed on an expression with a shared node
C8_Witness ==
    /\ pc = "done"
    /\ \E n \in Shared : writes[n] = 1 /\ calls[n] = 1

(***************************************************************************)
(* Properties of the monotone functions.                                   *)
(***************************************************************************)
Increasing == {"sqrt", "exp", "log", "asin", "atan"}

\* the function named g at the number x, rounded as rm
ValueOf(g, x, rm) ==
    CASE g = "sqrt" -> sqrt(x, rm)
      [] g = "exp" -> exp(x, rm)
      [] g = "log" -> log(x, rm)
      [] g = "asin" -> asin(x, rm)
      [] g = "acos" -> acos(x, rm)
      [] g = "atan" -> atan(x, rm)

\* the mathematical inverse each function is paired with
Partner(g) ==
    CASE g = "exp" -> "log"
      [] g = "log" -> "exp"
      [] g = "sin" -> "asin"
      [] g = "asin" -> "sin"
      [] g = "cos" -> "acos"
      [] g = "acos" -> "cos"
      [] g = "tan" -> "atan"
      [] g = "atan" -> "tan"

\* the square of an interval of the domain of the inverse of sqrt
Square(it) ==
    [err |-> gt(mul_num(it.lo, it.lo, "RD"), mul_num(it.hi, it.hi, "RU")),
     lo |-> IF gt(mul_num(it.lo, it.lo, "RD"), mul_num(it.hi, it.hi, "RU"))
            THEN nan ELSE mul_num(it.lo, it.lo, "RD"),
     hi |-> IF gt(mul_num(it.lo, it.lo, "RD"), mul_num(it.hi, it.hi, "RU"))
            THEN nan ELSE mul_num(it.hi, it.hi, "RU")]

\* an increasing function of [a, b] is [f(a) rounded down, f(b) rounded up]
IncreasingBounds ==
    (op = "function" /\ expr.kind \in Increasing) =>
        ret = [err |-> FALSE,
               lo |-> ValueOf(expr.kind, self.lo, "RD"),
               hi |-> ValueOf(expr.kind, self.hi, "RU")]

\* acos of [a, b] is [acos(b) rounded down, acos(a) rounded up] and does not raise
DecreasingBounds ==
    (op = "function" /\ expr.kind = "acos") =>
        ret = [err |-> FALSE,
               lo |-> ValueOf("acos", self.hi, "RD"),
               hi |-> ValueOf("acos", self.lo, "RU")]

\* f.inverse() is the call of the partner of f, and f.inverse.inverse() is f()
InversePairing ==
    /\ (op = "inverse" /\ expr.kind = "sqrt") => ret = Square(self)
    /\ (op = "inverse" /\ expr.kind # "sqrt") =>
            ret = function_call(property(Partner(expr.kind)), self)
    /\ op = "inverse.inverse" => ret = function_call(property(expr.kind), self)

\* C12: an increasing function (sqrt, exp, log, asin, atan) of an interval
\* [a, b] of its domain is [f(a) rounded down, f(b) rounded up]; acos is
\* [acos(b) rounded down, acos(a) rounded up], a valid interval, and does not
\* raise; the inverse of each function is the call of its partner, the
\* inverse of sqrt is the square, and the inverse of the inverse is the
\* function itself.
C12_MonotoneBoundsAndPairing ==
    /\ IncreasingBounds
    /\ DecreasingBounds
    /\ InversePairing

====
